---- MODULE Spec2Model ----
(***************************************************************************)
(* Release automation of git-insights: .github/scripts/bump_version.py     *)
(* (patch bump) and .github/scripts/add_rc_version.py (release candidate). *)
(*                                                                         *)
(* Text is modelled as TLA+ strings, character by character: a file is the *)
(* string of its bytes, a line is a string that ends with its terminator.  *)
(* The regular expressions of the scripts are operators that walk the      *)
(* characters the way Python's re module does.  The platform is POSIX      *)
(* (os.linesep = "\n", os.system returns a 16-bit wait status).            *)
(***************************************************************************)
EXTENDS Integers, Sequences, FiniteSets, TLC

(***************************************************************************)
(* Bounds of the model.                                                    *)
(***************************************************************************)
\* The lines of a manifest; the editor calls made one after another.
MaxLines == 4

MaxEdits == 2

(***************************************************************************)
(* Characters and strings.                                                 *)
(***************************************************************************)
Ch(s, i) == IF i >= 1 /\ i <= Len(s) THEN SubSeq(s, i, i) ELSE ""

From(s, i) == SubSeq(s, i, Len(s))

DigitChars == {"0", "1", "2", "3", "4", "5", "6", "7", "8", "9"}

\* Python's \s and the characters str.strip() removes, among those of the model.
IsSpace(c) == c \in {" ", "\t", "\r", "\n"}

\* Greedy \s* from position i: the first position that is not whitespace.
RECURSIVE SkipSpace(_, _)
SkipSpace(s, i) == IF IsSpace(Ch(s, i)) THEN SkipSpace(s, i + 1) ELSE i

StartsWithAt(s, i, lit) == i + Len(lit) - 1 <= Len(s) /\ SubSeq(s, i, i + Len(lit) - 1) = lit

startswith(s, lit) == StartsWithAt(s, 1, lit)

endswith(s, lit) == Len(s) >= Len(lit) /\ From(s, Len(s) - Len(lit) + 1) = lit

\* str.strip()
RECURSIVE LastNonSpace(_, _)
LastNonSpace(s, j) == IF IsSpace(Ch(s, j)) THEN LastNonSpace(s, j - 1) ELSE j

strip(s) == SubSeq(s, SkipSpace(s, 1), LastNonSpace(s, Len(s)))

DigitValue(c) ==
    CASE c = "0" -> 0 [] c = "1" -> 1 [] c = "2" -> 2 [] c = "3" -> 3 [] c = "4" -> 4
      [] c = "5" -> 5 [] c = "6" -> 6 [] c = "7" -> 7 [] c = "8" -> 8 [] c = "9" -> 9

DigitChar(d) ==
    CASE d = 0 -> "0" [] d = 1 -> "1" [] d = 2 -> "2" [] d = 3 -> "3" [] d = 4 -> "4"
      [] d = 5 -> "5" [] d = 6 -> "6" [] d = 7 -> "7" [] d = 8 -> "8" [] d = 9 -> "9"

\* int(s) of a string of decimal digits
RECURSIVE int(_)
int(s) == IF s = "" THEN 0 ELSE 10 * int(SubSeq(s, 1, Len(s) - 1)) + DigitValue(Ch(s, Len(s)))

\* str(n) of a natural number: no leading zeros
RECURSIVE str(_)
str(n) == IF n < 10 THEN DigitChar(n) ELSE str(n \div 10) \o DigitChar(n % 10)

\* "".join(seq)
RECURSIVE join(_)
join(seq) == IF seq = <<>> THEN "" ELSE Head(seq) \o join(Tail(seq))

(***************************************************************************)
(* File input and output in text mode.                                     *)
(***************************************************************************)
\* os.linesep of the platform
linesep == "\n"

\* str.splitlines(keepends): breaks at "\n", "\r\n" and "\r".
IsBreak(s, i) == Ch(s, i) \in {"\n", "\r"}

RECURSIVE BreakFrom(_, _)
BreakFrom(s, i) == IF i > Len(s) \/ IsBreak(s, i) THEN i ELSE BreakFrom(s, i + 1)

FirstBreak(s) == BreakFrom(s, 1)

BreakEnd(s, brk) == IF Ch(s, brk) = "\r" /\ Ch(s, brk + 1) = "\n" THEN brk + 1 ELSE brk

RECURSIVE splitlines(_, _)
RECURSIVE SplitAt(_, _, _)
SplitAt(s, keepends, brk) ==
    IF brk > Len(s) THEN <<s>>
    ELSE <<SubSeq(s, 1, IF keepends THEN BreakEnd(s, brk) ELSE brk - 1)>>
             \o splitlines(From(s, BreakEnd(s, brk) + 1), keepends)

splitlines(s, keepends) == IF s = "" THEN <<>> ELSE SplitAt(s, keepends, FirstBreak(s))

\* The lines of a text as "\n" alone ends them, each with its "\n" (the last may have none).
RECURSIVE NlFrom(_, _)
NlFrom(s, i) == IF i > Len(s) \/ Ch(s, i) = "\n" THEN i ELSE NlFrom(s, i + 1)

FirstNl(s) == NlFrom(s, 1)

RECURSIVE SplitNl(_)
RECURSIVE SplitNlAt(_, _)
SplitNlAt(s, nl) == IF nl > Len(s) THEN <<s>> ELSE <<SubSeq(s, 1, nl)>> \o SplitNl(From(s, nl + 1))

SplitNl(s) == IF s = "" THEN <<>> ELSE SplitNlAt(s, FirstNl(s))

\* Universal newlines on input: a line's "\r\n" or "\r" is read as "\n".
NewlineIn(line) ==
    IF endswith(line, "\r\n") THEN SubSeq(line, 1, Len(line) - 2) \o "\n"
    ELSE IF endswith(line, "\r") THEN SubSeq(line, 1, Len(line) - 1) \o "\n"
    ELSE line

\* Newline translation on output: a line's "\n" is written as os.linesep.
NewlineOut(line) ==
    IF endswith(line, "\n") THEN SubSeq(line, 1, Len(line) - 1) \o linesep ELSE line

RECURSIVE JoinIn(_)
JoinIn(lines) == IF lines = <<>> THEN "" ELSE NewlineIn(Head(lines)) \o JoinIn(Tail(lines))

RECURSIVE JoinOut(_)
JoinOut(lines) == IF lines = <<>> THEN "" ELSE NewlineOut(Head(lines)) \o JoinOut(Tail(lines))

\* Path.read_text(encoding="utf-8"): text mode with universal newlines.
read_text(bytes) == JoinIn(splitlines(bytes, TRUE))

\* Path.write_text(text, encoding="utf-8"): text mode, every "\n" becomes os.linesep.
\* (The text is split at "\n" alone: a "\r" in it is written as it is.)
write_text(text) == JoinOut(SplitNl(text))

(***************************************************************************)
(* Regular expressions.  A pattern is the sequence of its items; re_from   *)
(* matches it the way Python's backtracking matcher does: a repetition is  *)
(* greedy (the longest run first, then shorter ones), an optional group is *)
(* tried before it is skipped.                                             *)
(***************************************************************************)
Lit(v)   == [t |-> "lit", v |-> v]
Star(c)  == [t |-> "star", v |-> c]
Plus(c)  == [t |-> "plus", v |-> c]
One(c)   == [t |-> "one", v |-> c]
Opt(sub) == [t |-> "opt", v |-> sub]
Open     == [t |-> "(", v |-> ""]
Close    == [t |-> ")", v |-> ""]
Dollar   == [t |-> "$", v |-> ""]

\* The character classes \s, \d, . (anything but a newline), [^"] and [-+].
InClass(c, cls) ==
    /\ c # ""
    /\ CASE cls = "\\s"   -> IsSpace(c)
         [] cls = "\\d"   -> c \in DigitChars
         [] cls = "."     -> c # "\n"
         [] cls = "[^\"]" -> c # "\""
         [] cls = "[-+]"  -> c \in {"-", "+"}

\* The end of the longest run of cls from position i.
RECURSIVE RunEnd(_, _, _)
RunEnd(s, i, cls) == IF InClass(Ch(s, i), cls) THEN RunEnd(s, i + 1, cls) ELSE i

\* $ without re.MULTILINE: the end of the string, or just before a final "\n".
AtDollar(s, i) == i = Len(s) + 1 \/ (i = Len(s) /\ Ch(s, i) = "\n")

NoMatch == [ok |-> FALSE, caps |-> <<>>]

RECURSIVE re_from(_, _, _, _, _)
RECURSIVE re_down(_, _, _, _, _, _)
RECURSIVE re_pick(_, _, _, _, _, _, _)
\* Items k.. of pat against s from position i; caps: the group boundaries passed so far.
re_from(pat, k, s, i, caps) ==
    IF k > Len(pat) THEN [ok |-> TRUE, caps |-> caps]
    ELSE CASE pat[k].t = "lit" ->
                IF StartsWithAt(s, i, pat[k].v)
                THEN re_from(pat, k + 1, s, i + Len(pat[k].v), caps) ELSE NoMatch
           [] pat[k].t \in {"(", ")"} -> re_from(pat, k + 1, s, i, Append(caps, i))
           [] pat[k].t = "$" ->
                IF AtDollar(s, i) THEN re_from(pat, k + 1, s, i, caps) ELSE NoMatch
           [] pat[k].t = "one" ->
                IF InClass(Ch(s, i), pat[k].v)
                THEN re_from(pat, k + 1, s, i + 1, caps) ELSE NoMatch
           [] pat[k].t = "star" -> re_down(pat, k, s, i, RunEnd(s, i, pat[k].v), caps)
           [] pat[k].t = "plus" -> re_down(pat, k, s, i + 1, RunEnd(s, i, pat[k].v), caps)
           [] pat[k].t = "opt" ->
                re_pick(re_from(pat[k].v \o SubSeq(pat, k + 1, Len(pat)), 1, s, i, caps),
                        pat, k, s, i, i + 1, caps)

\* A greedy repetition (item k) that may end anywhere in lo..j: the longest run first.
re_down(pat, k, s, lo, j, caps) ==
    IF j < lo THEN NoMatch
    ELSE re_pick(re_from(pat, k + 1, s, j, caps), pat, k, s, lo, j, caps)

\* The attempt r if it matched, else the next shorter run.  (For an optional group r
\* is the attempt with the group, and the next one, at j - 1 = lo, the one without.)
re_pick(r, pat, k, s, lo, j, caps) ==
    IF r.ok THEN r ELSE re_down(pat, k, s, lo, j - 1, caps)

\* re.match(pat, s): whether it matches and the text of each group.
Groups(s, r) ==
    [ok |-> r.ok,
     g  |-> [n \in 1..(Len(r.caps) \div 2) |-> SubSeq(s, r.caps[2 * n - 1], r.caps[2 * n] - 1)]]

re_match(pat, s) == Groups(s, re_from(pat, 1, s, 1, <<>>))

(***************************************************************************)
(* The section scan shared by the editors and the readers.                 *)
(***************************************************************************)
\* r"^\s*\[package\]\s*$"
PACKAGE_RE == <<Star("\\s"), Lit("[package]"), Star("\\s"), Dollar>>

\* r"^\s*\[.*\]\s*$"
SECTION_RE == <<Star("\\s"), Lit("["), Star("."), Lit("]"), Star("\\s"), Dollar>>

\* (\s*version\s*=\s*")
ASSIGN_GROUP ==
    <<Open, Star("\\s"), Lit("version"), Star("\\s"), Lit("="), Star("\\s"), Lit("\""), Close>>

\* bump_version.py: r'^(\s*version\s*=\s*")(\d+)\.(\d+)\.(\d+)(".*)$'
VERSION_RE_PATCH ==
    ASSIGN_GROUP \o <<Open, Plus("\\d"), Close, Lit("."), Open, Plus("\\d"), Close, Lit("."),
                      Open, Plus("\\d"), Close, Open, Lit("\""), Star("."), Close, Dollar>>

\* add_rc_version.py: r'^(\s*version\s*=\s*")(\d+\.\d+\.\d+)(?:[-+].*)?(".*)$'
VERSION_RE_RC ==
    ASSIGN_GROUP \o <<Open, Plus("\\d"), Lit("."), Plus("\\d"), Lit("."), Plus("\\d"), Close,
                      Opt(<<One("[-+]"), Star(".")>>), Open, Lit("\""), Star("."), Close, Dollar>>

IsPackageHeader(line) == re_from(PACKAGE_RE, 1, line, 1, <<>>).ok

IsSectionHeader(line) == re_from(SECTION_RE, 1, line, 1, <<>>).ok

\* The editors' update of in_pkg on a line: if / elif.
NextInPkg_NoReset(in_pkg, line) == IsPackageHeader(line) \/ in_pkg

NextInPkg(in_pkg, line) ==
    IF IsPackageHeader(line) THEN TRUE
    ELSE IF IsSectionHeader(line) THEN FALSE
    ELSE in_pkg

\* for i, line in enumerate(txt): the index of the first line that matches pat while
\* in_pkg holds (the loop breaks there), 0 when the loop ends without a match.
RECURSIVE ScanFrom(_, _, _, _)
ScanFrom(pat, txt, i, in_pkg) ==
    IF i > Len(txt) THEN 0
    ELSE IF NextInPkg(in_pkg, txt[i]) /\ re_from(pat, 1, txt[i], 1, <<>>).ok THEN i
    ELSE ScanFrom(pat, txt, i + 1, NextInPkg(in_pkg, txt[i]))

(***************************************************************************)
(* The clock: datetime.now(timezone.utc).strftime("%Y%m%d%H%M%S").         *)
(***************************************************************************)
\* The instants the clock shows, in the order in which they pass.
Clock ==
    << [Y |-> 2026, M |-> 11, D |-> 5, h |-> 9, m |-> 3, s |-> 7],
       [Y |-> 2026, M |-> 11, D |-> 5, h |-> 9, m |-> 3, s |-> 8],
       [Y |-> 2027, M |-> 1, D |-> 31, h |-> 23, m |-> 59, s |-> 40] >>

Pad2(n) == IF n < 10 THEN "0" \o str(n) ELSE str(n)

strftime(t) == str(t.Y) \o Pad2(t.M) \o Pad2(t.D) \o Pad2(t.h) \o Pad2(t.m) \o Pad2(t.s)

(***************************************************************************)
(* The Manifest Editor.  Each editor returns [ok, out, ret]: whether the   *)
(* version was found, the bytes of the file afterwards, the value returned.*)
(***************************************************************************)
\* The CRLF branch of both editors.
KeepTerminator(line, new_line) ==
    IF endswith(line, "\r\n") THEN SubSeq(new_line, 1, Len(new_line) - 1) \o "\r\n"
    ELSE new_line

\* txt[i] = new_line; path.write_text("".join(txt))
WriteLine(txt, i, new_line) == write_text(join([txt EXCEPT ![i] = new_line]))

\* The new line of the patch editor from the groups g of the match on line.
PatchLine(line, g) ==
    KeepTerminator(line, g[1] \o str(int(g[2])) \o "." \o str(int(g[3])) \o "."
                            \o str(int(g[4]) + 1) \o g[5] \o "\n")

\* A patch editor that writes the file before it looks at changed.
PatchAt_WriteFirst(bytes, txt, i) ==
    [ok |-> i # 0,
     out |-> IF i = 0 THEN write_text(join(txt))
             ELSE WriteLine(txt, i, PatchLine(txt[i], re_match(VERSION_RE_PATCH, txt[i]).g)),
     ret |-> ""]

PatchAt(bytes, txt, i) ==
    IF i = 0 THEN [ok |-> FALSE, out |-> bytes, ret |-> ""]
    ELSE [ok |-> TRUE,
          out |-> WriteLine(txt, i, PatchLine(txt[i], re_match(VERSION_RE_PATCH, txt[i]).g)),
          ret |-> ""]

PatchScan(bytes, txt) == PatchAt(bytes, txt, ScanFrom(VERSION_RE_PATCH, txt, 1, FALSE))

bump_patch_in_cargo_toml(bytes) == PatchScan(bytes, splitlines(read_text(bytes), TRUE))

\* The new line of the release-candidate editor.
RcLine(line, g, new_version) == KeepTerminator(line, g[1] \o new_version \o g[3] \o "\n")

RcWrite(txt, i, g, ts) ==
    [ok |-> TRUE,
     out |-> WriteLine(txt, i, RcLine(txt[i], g, g[2] \o "-rc." \o ts)),
     ret |-> g[2] \o "-rc." \o ts]

RcAt(bytes, txt, i, ts) ==
    IF i = 0 THEN [ok |-> FALSE, out |-> bytes, ret |-> ""]
    ELSE RcWrite(txt, i, re_match(VERSION_RE_RC, txt[i]).g, ts)

RcScan(bytes, txt, ts) == RcAt(bytes, txt, ScanFrom(VERSION_RE_RC, txt, 1, FALSE), ts)

set_rc_in_cargo_toml(bytes, ts) == RcScan(bytes, splitlines(read_text(bytes), TRUE), ts)

(***************************************************************************)
(* The Version Reader.                                                     *)
(***************************************************************************)
\* bump_version.py: r'\s*version\s*=\s*"(\d+\.\d+\.\d+)"'
READ_RE_PATCH ==
    <<Star("\\s"), Lit("version"), Star("\\s"), Lit("="), Star("\\s"), Lit("\""), Open,
      Plus("\\d"), Lit("."), Plus("\\d"), Lit("."), Plus("\\d"), Close, Lit("\"")>>

\* add_rc_version.py: r'\s*version\s*=\s*"([^"]+)"'
READ_RE_FULL ==
    <<Star("\\s"), Lit("version"), Star("\\s"), Lit("="), Star("\\s"), Lit("\""), Open,
      Plus("[^\"]"), Close, Lit("\"")>>

\* The readers' loop from line i on: group 1 of the first match inside the package
\* section, "" when the loop ends without one (the reader then ends the process).
RECURSIVE ReadFrom(_, _, _, _)
ReadFrom(pat, lines, i, in_pkg) ==
    IF i > Len(lines) THEN ""
    ELSE IF IsPackageHeader(lines[i]) THEN ReadFrom(pat, lines, i + 1, TRUE)
    ELSE IF IsSectionHeader(lines[i]) THEN ReadFrom(pat, lines, i + 1, FALSE)
    ELSE IF in_pkg /\ re_from(pat, 1, lines[i], 1, <<>>).ok THEN re_match(pat, lines[i]).g[1]
    ELSE ReadFrom(pat, lines, i + 1, in_pkg)

read_version_from_toml(bytes) ==
    ReadFrom(READ_RE_PATCH, splitlines(read_text(bytes), FALSE), 1, FALSE)

read_version_from_toml_full(bytes) ==
    ReadFrom(READ_RE_FULL, splitlines(read_text(bytes), FALSE), 1, FALSE)

(***************************************************************************)
(* The manifests the editors are applied to.                               *)
(***************************************************************************)
LineTexts ==
    { "[package]",
      "[dependencies]",
      "  version = \"1.2.9\" # c",
      "version = \"1.2.3-rc.1\" # say \"hi\"" }

Styles == {"lf", "crlf", "nofinal"}

RECURSIVE Render(_, _)
Render(lines, style) ==
    IF lines = <<>> THEN ""
    ELSE Head(lines)
           \o (IF style = "crlf" THEN "\r\n"
               ELSE IF style = "nofinal" /\ Len(lines) = 1 THEN "" ELSE "\n")
           \o Render(Tail(lines), style)

Manifests ==
    { Render(ls, st) : ls \in UNION {[1..n -> LineTexts] : n \in 1..MaxLines}, st \in Styles }

\* A manifest cargo accepts whose package section has, inside a multi-line string, a
\* line that assigns to version a value that is not a version.
ReaderManifests ==
    { Render(<<"[package]", "description = \"\"\"", "version = \"1.2\"", "\"\"\"",
               "version = \"1.2.3\"">>, "lf") }

(***************************************************************************)
(* State.                                                                  *)
(***************************************************************************)
VARIABLES
    toml,     \* the bytes of Cargo.toml in the working tree
    trail,    \* the editor calls made so far: [mode, ok, before, after, ret, at, read]
    call,     \* a verifier step taken on its own, and its input
    ret,      \* what that step returned, NoRet before it ran
    env,      \* the script run and its environment: [mode, flag, token, repository]
    run,      \* the running process: [n, pc, exit, version, branch, ...]
    lock,     \* the lines of Cargo.lock in the working tree
    extra,    \* whether a third path of the working tree is changed
    git       \* the repository: [head, heads, remote, prs]

vars == <<toml, trail, call, ret, env, run, lock, extra, git>>

pipe == <<env, run, lock, extra, git>>

\* No pipeline runs while an editor or a verifier step is taken on its own.
NoPipeline ==
    /\ env = [mode |-> "none"]
    /\ run = [pc |-> "none"]
    /\ lock = <<>>
    /\ extra = FALSE
    /\ git = [head |-> "none"]

NoCall == [op |-> "none"]

NoRet == [done |-> FALSE]

EditInit ==
    /\ toml \in Manifests \cup ReaderManifests
    /\ trail = <<>>
    /\ call = NoCall
    /\ ret = NoRet
    /\ NoPipeline

\* An editor that does not find the version ends the process (sys.exit).
CanEdit == Len(trail) < MaxEdits /\ (IF trail = <<>> THEN TRUE ELSE trail[Len(trail)].ok)

\* at: the instant of the clock a successful release-candidate edit read (0: none);
\* read: what the reader of the same script returns on the file the editor wrote.
EditRecord(mode, before, r, at) ==
    [mode |-> mode, ok |-> r.ok, before |-> before, after |-> r.out, ret |-> r.ret,
     at |-> IF r.ok THEN at ELSE 0,
     read |-> IF ~r.ok THEN ""
              ELSE IF mode = "patch" THEN read_version_from_toml(r.out)
              ELSE read_version_from_toml_full(r.out)]

PatchEdit ==
    /\ CanEdit
    /\ \E r \in {bump_patch_in_cargo_toml(toml)} :
          /\ toml' = r.out
          /\ trail' = Append(trail, EditRecord("patch", toml, r, 0))
    /\ UNCHANGED <<call, ret, pipe>>

\* Time passes between two runs: a later edit reads a later instant.
RcEdit ==
    /\ CanEdit
    /\ \E k \in 1..Len(Clock) :
          /\ \A n \in 1..Len(trail) : trail[n].at < k
          /\ \E r \in {set_rc_in_cargo_toml(toml, strftime(Clock[k]))} :
                /\ toml' = r.out
                /\ trail' = Append(trail, EditRecord("rc", toml, r, k))
    /\ UNCHANGED <<call, ret, pipe>>

EditNext == PatchEdit \/ RcEdit

SpecEdit == EditInit /\ [][EditNext]_vars

(***************************************************************************)
(* What the editor properties speak of, read off the bytes of the file,    *)
(* not through the editors' scan.                                          *)
(***************************************************************************)
\* A line without its terminator.
RECURSIVE Content(_)
Content(line) ==
    IF line # "" /\ Ch(line, Len(line)) \in {"\n", "\r"}
    THEN Content(SubSeq(line, 1, Len(line) - 1))
    ELSE line

Terminator(line) == From(line, Len(Content(line)) + 1)

IsHeaderText(c) == startswith(strip(c), "[") /\ endswith(strip(c), "]")

\* Line j of lines lies inside the package section.
InPackageSection(lines, j) ==
    \E h \in 1..(j - 1) :
        /\ strip(Content(lines[h])) = "[package]"
        /\ \A m \in (h + 1)..j : ~IsHeaderText(Content(lines[m]))

IsPlainField(c) == re_from(VERSION_RE_PATCH, 1, c, 1, <<>>).ok

IsVersionField(c) == re_from(VERSION_RE_RC, 1, c, 1, <<>>).ok

\* The package section's lines of the given kind.
PlainFields(lines) ==
    {j \in 1..Len(lines) : InPackageSection(lines, j) /\ IsPlainField(Content(lines[j]))}

VersionFields(lines) ==
    {j \in 1..Len(lines) : InPackageSection(lines, j) /\ IsVersionField(Content(lines[j]))}

DiffIdx(a, b) == {j \in 1..Len(a) : j > Len(b) \/ a[j] # b[j]}

LastEdit == trail[Len(trail)]

\* The index of the second double quote of c (0: none).
RECURSIVE QuoteFrom(_, _, _)
QuoteFrom(c, i, n) ==
    IF i > Len(c) THEN 0
    ELSE IF Ch(c, i) = "\"" THEN (IF n = 1 THEN i ELSE QuoteFrom(c, i + 1, n - 1))
    ELSE QuoteFrom(c, i + 1, n)

\* X.Y.(Z+1) in place of the triple of a plain version line, all else as it was.
BumpedLine(line, g) ==
    g[1] \o g[2] \o "." \o g[3] \o "." \o str(int(g[4]) + 1) \o g[5] \o Terminator(line)

\* C1: a patch-mode edit of a manifest whose package section holds a line
\* version = "X.Y.Z" succeeds, writes that line back with the triple X.Y.(Z+1),
\* and writes every other line back byte for byte, in the same order.
C1_PatchEditByteExact ==
    (trail # <<>> /\ LastEdit.mode = "patch" /\ PlainFields(SplitNl(LastEdit.before)) # {})
        => /\ LastEdit.ok
           /\ Len(SplitNl(LastEdit.after)) = Len(SplitNl(LastEdit.before))
           /\ \E i \in PlainFields(SplitNl(LastEdit.before)) :
                 /\ SplitNl(LastEdit.after)[i]
                      = BumpedLine(SplitNl(LastEdit.before)[i],
                                   re_match(VERSION_RE_PATCH,
                                            Content(SplitNl(LastEdit.before)[i])).g)
                 /\ DiffIdx(SplitNl(LastEdit.after), SplitNl(LastEdit.before)) \subseteq {i}

\* The parts of a version field c: the text up to and with the opening quote, the
\* triple, and the text from the closing quote on.
FieldBefore(c) == SubSeq(c, 1, QuoteFrom(c, 1, 1))

FieldTriple(c) == re_match(VERSION_RE_RC, c).g[2]

FieldAfter(c) == From(c, QuoteFrom(c, 1, 2))

IsTimestamp(ts) == Len(ts) = 14 /\ \A n \in 1..14 : Ch(ts, n) \in DigitChars

\* The release-candidate form of the field c at the instant ts.
RcField(c, ts) == FieldBefore(c) \o FieldTriple(c) \o "-rc." \o ts \o FieldAfter(c)

\* C2: a release-candidate edit of a manifest whose package section holds a version
\* field with triple X.Y.Z, suffixed or not, succeeds, returns X.Y.Z-rc.<14 digits>,
\* and rewrites the field to exactly that between the unchanged text before the
\* version and the unchanged text from the closing quote on.
C2_RcEditPreservesText ==
    (trail # <<>> /\ LastEdit.mode = "rc"
        /\ VersionFields(splitlines(LastEdit.before, FALSE)) # {})
        => /\ LastEdit.ok
           /\ IsTimestamp(strftime(Clock[LastEdit.at]))
           /\ \E i \in VersionFields(splitlines(LastEdit.before, FALSE)) :
                 /\ LastEdit.ret = FieldTriple(splitlines(LastEdit.before, FALSE)[i])
                                     \o "-rc." \o strftime(Clock[LastEdit.at])
                 /\ i <= Len(splitlines(LastEdit.after, FALSE))
                 /\ splitlines(LastEdit.after, FALSE)[i]
                      = RcField(splitlines(LastEdit.before, FALSE)[i],
                                strftime(Clock[LastEdit.at]))

\* The patch component of a plain version line.
PatchOf(c) == int(re_match(VERSION_RE_PATCH, c).g[4])

\* Between the lines b before and a after an edit at most one line differs, and that
\* one lies in the package section.
FrameOf(a, b) ==
    /\ Len(a) = Len(b)
    /\ Cardinality(DiffIdx(a, b)) <= 1
    /\ \A j \in DiffIdx(a, b) : InPackageSection(b, j)

\* The one line that differs is a plain field whose patch component went up by one.
RaisedOf(a, b) ==
    \E i \in PlainFields(b) :
        /\ DiffIdx(a, b) = {i}
        /\ IsPlainField(a[i])
        /\ PatchOf(a[i]) = PatchOf(b[i]) + 1

\* The edit e, and the edit p before it if there is one (else e itself).
EditFrame(e, p, a, b) ==
    /\ FrameOf(a, b)
    /\ (e.mode = "patch" /\ e.ok) => RaisedOf(a, b)
    /\ (e.mode = "patch" /\ e.ok /\ p.mode = "patch")
          => DiffIdx(a, b) = DiffIdx(splitlines(p.after, FALSE), splitlines(p.before, FALSE))

MaxFileLines == 2

\* The paths git status may report, in the order git lists them.
PathOrder == <<"Cargo.lock", "Cargo.toml", "README.md", "src/main.rs">>

\* The two-letter state of a reported path; "" for a path that is not reported.
StatusCodes == {" M", "??", "A "}

\* st[n]: the state of PathOrder[n].  One line "XY path" per reported path.
RECURSIVE GitStatus(_, _)
GitStatus(st, n) ==
    IF n > Len(PathOrder) THEN ""
    ELSE (IF st[n] = "" THEN "" ELSE st[n] \o " " \o PathOrder[n] \o "\n")
           \o GitStatus(st, n + 1)

\* The length of a longest common subsequence of a and b.
RECURSIVE lcs(_, _)
lcs(a, b) ==
    IF a = <<>> \/ b = <<>> THEN 0
    ELSE IF Head(a) = Head(b) THEN 1 + lcs(Tail(a), Tail(b))
    ELSE IF lcs(Tail(a), b) >= lcs(a, Tail(b)) THEN lcs(Tail(a), b)
    ELSE lcs(a, Tail(b))

\* A shortest edit script from a to b: kept ("="), removed ("-") and added ("+") lines.
RECURSIVE EditScript(_, _)
EditScript(a, b) ==
    IF a = <<>> THEN [n \in 1..Len(b) |-> [op |-> "+", line |-> b[n]]]
    ELSE IF b = <<>> THEN [n \in 1..Len(a) |-> [op |-> "-", line |-> a[n]]]
    ELSE IF Head(a) = Head(b)
         THEN <<[op |-> "=", line |-> Head(a)]>> \o EditScript(Tail(a), Tail(b))
    ELSE IF lcs(Tail(a), b) >= lcs(a, Tail(b))
         THEN <<[op |-> "-", line |-> Head(a)]>> \o EditScript(Tail(a), b)
    ELSE <<[op |-> "+", line |-> Head(b)]>> \o EditScript(a, Tail(b))

\* The lines of the script with the given mark, from item i up to the next kept line.
RECURSIVE HunkLines(_, _, _)
HunkLines(script, i, mark) ==
    IF i > Len(script) \/ script[i].op = "=" THEN <<>>
    ELSE (IF script[i].op = mark THEN <<script[i].line>> ELSE <<>>)
           \o HunkLines(script, i + 1, mark)

\* The first item from i on that is a kept line (Len + 1: none).
RECURSIVE HunkEnd(_, _)
HunkEnd(script, i) ==
    IF i > Len(script) \/ script[i].op = "=" THEN i ELSE HunkEnd(script, i + 1)

\* "start,count" of a hunk header.
HunkRange(start, count) ==
    IF count = 1 THEN str(start)
    ELSE IF count = 0 THEN str(start - 1) \o ",0"
    ELSE str(start) \o "," \o str(count)

RECURSIVE MarkAll(_, _)
MarkAll(lines, mark) ==
    IF lines = <<>> THEN "" ELSE mark \o Head(lines) \o "\n" \o MarkAll(Tail(lines), mark)

FuncNameStart ==
    {Ch("abcdefghijklmnopqrstuvwxyzABCDEFGHIJKLMNOPQRSTUVWXYZ_$", n) : n \in 1..54}

\* The heading git puts after a hunk header: the last of the old file's first k lines
\* that starts with a letter, an underscore or a dollar sign, without trailing space.
RECURSIVE FuncName(_, _)
FuncName(old, k) ==
    IF k = 0 THEN ""
    ELSE IF Ch(old[k], 1) \in FuncNameStart
         THEN " " \o SubSeq(old[k], 1, LastNonSpace(old[k], Len(old[k])))
    ELSE FuncName(old, k - 1)

\* One hunk: its header, the removed lines, the added lines.
HunkText(old, minus, plus, oi, ni) ==
    "@@ -" \o HunkRange(oi, Len(minus)) \o " +" \o HunkRange(ni, Len(plus)) \o " @@"
      \o FuncName(old, oi - 1) \o "\n" \o MarkAll(minus, "-") \o MarkAll(plus, "+")

\* The hunks of the script from item i on; oi, ni: the next line of the old, new file.
RECURSIVE Hunks(_, _, _, _, _)
Hunks(old, script, i, oi, ni) ==
    IF i > Len(script) THEN ""
    ELSE IF script[i].op = "=" THEN Hunks(old, script, i + 1, oi + 1, ni + 1)
    ELSE HunkText(old, HunkLines(script, i, "-"), HunkLines(script, i, "+"), oi, ni)
           \o Hunks(old, script, HunkEnd(script, i),
                    oi + Len(HunkLines(script, i, "-")), ni + Len(HunkLines(script, i, "+")))

\* git diff --unified=0 -- file_path, for the file's lines in the index and on disk.
GitDiff(file_path, old, new) ==
    IF old = new THEN ""
    ELSE "diff --git a/" \o file_path \o " b/" \o file_path \o "\n"
           \o "index 1111111..2222222 100644\n"
           \o "--- a/" \o file_path \o "\n"
           \o "+++ b/" \o file_path \o "\n"
           \o Hunks(old, EditScript(old, new), 1, 1, 1)

(***************************************************************************)
(* The Diff Verifier.  A step that ends the process with a message returns *)
(* ok = FALSE and the message; sys.exit(message) is exit status 1.         *)
(***************************************************************************)
allowed == {"Cargo.toml", "Cargo.lock"}

\* for line in out.splitlines(): skip blank lines, path = line[3:].strip()
RECURSIVE StatusPaths(_)
StatusPaths(lines) ==
    IF lines = <<>> THEN {}
    ELSE (IF strip(Head(lines)) = "" THEN {} ELSE {strip(From(Head(lines), 4))})
           \cup StatusPaths(Tail(lines))

PathsPass_Subset(paths) == paths \subseteq allowed

\* not (set(paths) != allowed)
PathsPass(paths) == paths = allowed

CheckPaths(paths) ==
    [done |-> TRUE, ok |-> PathsPass(paths),
     msg |-> IF PathsPass(paths) THEN "" ELSE "Only Cargo.toml and Cargo.lock may change",
     got |-> paths, old |-> "", new |-> ""]

check_only_two_files_modified(out) == CheckPaths(StatusPaths(splitlines(out, FALSE)))

\* line.startswith(("+++", "---", "@@", "diff "))
IsDiffMeta(line) ==
    \/ startswith(line, "+++")
    \/ startswith(line, "---")
    \/ startswith(line, "@@")
    \/ startswith(line, "diff ")

\* plus_lines (mark "+") or minus_lines (mark "-"): line[1:] of the lines so marked.
RECURSIVE Marked(_, _)
Marked(lines, mark) ==
    IF lines = <<>> THEN <<>>
    ELSE (IF ~IsDiffMeta(Head(lines)) /\ startswith(Head(lines), mark)
          THEN <<From(Head(lines), 2)>> ELSE <<>>)
           \o Marked(Tail(lines), mark)

ExtractResult(file_path, plus_lines, minus_lines) ==
    IF Len(plus_lines) # 1 \/ Len(minus_lines) # 1
    THEN [done |-> TRUE, ok |-> FALSE,
          msg |-> file_path \o ": expected exactly one added and one removed line",
          got |-> {}, old |-> "", new |-> ""]
    ELSE [done |-> TRUE, ok |-> TRUE, msg |-> "", got |-> {},
          old |-> strip(minus_lines[1]), new |-> strip(plus_lines[1])]

ExtractFrom(file_path, lines) ==
    ExtractResult(file_path, Marked(lines, "+"), Marked(lines, "-"))

extract_single_line_change(file_path, old, new) ==
    ExtractFrom(file_path, splitlines(GitDiff(file_path, old, new), FALSE))

PairPass_NewOnly(t, l) == ~(t.new # l.new)

\* not (new_toml != new_lock or old_toml != old_lock)
PairPass(t, l) == ~(t.new # l.new \/ t.old # l.old)

\* main, step 4, from the two extractions t and l.
PairGate(t, l) ==
    IF ~t.ok THEN t
    ELSE IF ~l.ok THEN l
    ELSE IF ~PairPass(t, l)
         THEN [done |-> TRUE, ok |-> FALSE,
               msg |-> "Changed line in Cargo.toml and Cargo.lock are not identical",
               got |-> {}, old |-> "", new |-> ""]
    ELSE t

(***************************************************************************)
(* The verifier's steps, each applied to what git may report.              *)
(***************************************************************************)
FileTexts ==
    { "version = \"1.2.3\"",
      "version = \"1.2.4\"",
      "  version = \"1.2.4\"",
      "++ x" }

\* Files of up to n lines, no line twice (which of two equal lines git pairs with a
\* kept line is not modelled).
Files(n) ==
    { f \in UNION {[1..k -> FileTexts] : k \in 0..n} :
        \A i, j \in 1..Len(f) : f[i] = f[j] => i = j }

Call(op, st, file_path, old, new, lock_old, lock_new) ==
    [op |-> op, st |-> st, file_path |-> file_path, old |-> old, new |-> new,
     lock_old |-> lock_old, lock_new |-> lock_new]

StatusCalls ==
    { Call("status", st, "", <<>>, <<>>, <<>>, <<>>) :
        st \in [1..Len(PathOrder) -> {""} \cup StatusCodes] }

DiffCalls ==
    { Call("diff", <<>>, p, old, new, <<>>, <<>>) :
        p \in allowed, old \in Files(MaxFileLines), new \in Files(MaxFileLines) }

PairCalls ==
    { Call("pair", <<>>, "", <<a>>, <<b>>, <<c>>, <<d>>) : a, b, c, d \in FileTexts }

VerifyInit ==
    /\ toml = ""
    /\ trail = <<>>
    /\ call \in StatusCalls \cup DiffCalls \cup PairCalls
    /\ ret = NoRet
    /\ NoPipeline

CheckTwoFiles ==
    /\ call.op = "status" /\ ~ret.done
    /\ ret' = check_only_two_files_modified(GitStatus(call.st, 1))
    /\ UNCHANGED <<toml, trail, call, pipe>>

ExtractChange ==
    /\ call.op = "diff" /\ ~ret.done
    /\ ret' = extract_single_line_change(call.file_path, call.old, call.new)
    /\ UNCHANGED <<toml, trail, call, pipe>>

ComparePair ==
    /\ call.op = "pair" /\ ~ret.done
    /\ ret' = PairGate(extract_single_line_change("Cargo.toml", call.old, call.new),
                       extract_single_line_change("Cargo.lock", call.lock_old, call.lock_new))
    /\ UNCHANGED <<toml, trail, call, pipe>>

VerifyNext == CheckTwoFiles \/ ExtractChange \/ ComparePair

SpecVerify == VerifyInit /\ [][VerifyNext]_vars

\* The paths a status reports.
Reported(st) == {PathOrder[n] : n \in {k \in 1..Len(st) : st[k] # ""}}

\* C4: the two-file gate passes exactly when the set of paths the status reports is
\* {Cargo.toml, Cargo.lock}; for any other set it ends the run with a failure that
\* names the set it saw.
C4_TwoFileGate ==
    (call.op = "status" /\ ret.done)
        => /\ ret.ok <=> Reported(call.st) = {"Cargo.toml", "Cargo.lock"}
           /\ ~ret.ok => (ret.msg # "" /\ ret.got = Reported(call.st))

\* The gate refused a status that reports both files and a third path.
C4_Witness ==
    /\ call.op = "status" /\ ret.done /\ ~ret.ok
    /\ {"Cargo.toml", "Cargo.lock", "README.md"} \subseteq ret.got

\* The number of lines a zero-context diff of old and new removes and adds.
Removed(old, new) == Len(old) - lcs(old, new)

Added(old, new) == Len(new) - lcs(old, new)

\* C5: the extraction succeeds exactly when the diff of the file has one added and
\* one removed content line, whatever their text.
C5_ShapeGate ==
    (call.op = "diff" /\ ret.done)
        => (ret.ok <=> (Added(call.old, call.new) = 1 /\ Removed(call.old, call.new) = 1))

\* C6: when both files changed in one line, the pair gate passes exactly when the
\* trimmed removed lines agree and the trimmed added lines agree; otherwise the run
\* ends with a failure.
C6_PairGate ==
    (call.op = "pair" /\ ret.done
        /\ extract_single_line_change("Cargo.toml", call.old, call.new).ok
        /\ extract_single_line_change("Cargo.lock", call.lock_old, call.lock_new).ok)
        => /\ ret.ok <=> (/\ strip(call.old[1]) = strip(call.lock_old[1])
                          /\ strip(call.new[1]) = strip(call.lock_new[1]))
           /\ ~ret.ok => ret.msg # ""

\* The gate passed a pair whose added lines differ only in surrounding space.
C6_Witness ==
    /\ call.op = "pair" /\ ret.done /\ ret.ok
    /\ call.new[1] # call.lock_new[1]
    /\ call.old[1] = call.lock_old[1]

(***************************************************************************)
(* The process and its surroundings.                                       *)
(***************************************************************************)
\* The runs of the script in one repository.
MaxRuns == 2

\* os.system: the wait status of the command, exit code n or death by signal n.
WaitStatus(kind, n) == IF kind = "exit" THEN n * 256 ELSE n

\* sys.exit(arg) with an integer: the status the caller sees is its low eight bits.
ExitStatus(arg) == arg % 256

\* What cargo build may do: how it ends, whether it brings the lockfile's version
\* line up to the manifest's, whether it leaves a third changed path behind.
BuildOutcomes ==
    { [kind |-> "exit", n |-> 0, lock |-> TRUE, extra |-> FALSE],
      [kind |-> "exit", n |-> 0, lock |-> FALSE, extra |-> FALSE],
      [kind |-> "exit", n |-> 0, lock |-> TRUE, extra |-> TRUE],
      [kind |-> "exit", n |-> 101, lock |-> TRUE, extra |-> FALSE],
      [kind |-> "exit", n |-> 1, lock |-> FALSE, extra |-> TRUE],
      [kind |-> "signal", n |-> 9, lock |-> FALSE, extra |-> FALSE] }

\* The value of the manifest's first version field of the package section, as cargo
\* reads it: the text between the quotes ("" without such a field).
CargoVersion(lines, fields) ==
    IF fields = {} THEN ""
    ELSE SubSeq(lines[CHOOSE j \in fields : \A k \in fields : j <= k],
                QuoteFrom(lines[CHOOSE j \in fields : \A k \in fields : j <= k], 1, 1) + 1,
                QuoteFrom(lines[CHOOSE j \in fields : \A k \in fields : j <= k], 1, 2) - 1)

\* Cargo.lock of a one-package workspace with its version line set to v.
LockFor(v) == <<"[[package]]", "name = \"x\"", "version = \"" \o v \o "\"">>

\* The bytes of a file without the final newline of each line.
RECURSIVE ByteLines(_)
ByteLines(lines) ==
    IF lines = <<>> THEN <<>>
    ELSE <<SubSeq(Head(lines), 1, Len(Head(lines)) - 1)>> \o ByteLines(Tail(lines))

\* The manifests the pipeline starts from.
PipelineManifests ==
    { Render(<<"[package]", "name = \"x\"", "version = \"1.2.3\"">>, "lf"),
      Render(<<"[package]", "name = \"x\"", "version = \"1.2.3\"">>, "crlf"),
      Render(<<"[package]", "name = \"x\"", "  version = \"1.2.3\"">>, "lf"),
      Render(<<"[package]", "name = \"x\"">>, "lf"),
      Render(<<"[dependencies]", "version = \"1.2.3\"">>, "lf"),
      Render(<<"[package]", "name = \"x\"", "[dependencies]", "version = \"1.2.3\"">>,
             "crlf") }

\* bump_version.py takes no arguments; add_rc_version.py takes --create-pull-request.
\* token: which of GITHUB_TOKEN and GH_TOKEN is set; repository: GITHUB_REPOSITORY is.
Environments ==
    { e \in [mode : {"patch", "rc"}, flag : BOOLEAN,
             token : {"", "GITHUB_TOKEN", "GH_TOKEN"}, repository : BOOLEAN] :
        e.mode = "patch" => ~e.flag }

\* A process at the start of main, in the repository g.  rc: the value of os.system,
\* answer: the status code of the API, gates: the verifier gates passed, stderr: what
\* git and github_api wrote to sys.stderr, pushrc: the exit codes of the push commands,
\* failed: the git command that ended the process, and its exit code.
NewRun(n, g) ==
    [n |-> n, pc |-> "start", exit |-> -1, log |-> <<"start">>, gates |-> 0,
     version |-> "", branch |-> "", committed |-> FALSE, pushes |-> 0,
     rc |-> -1, request |-> [title |-> "", head |-> ""], answer |-> 0,
     stderr |-> <<>>, pushrc |-> <<>>, failed |-> [cmd |-> "", code |-> 0], pre |-> g]

\* The branch main with the manifest and its lockfile committed, nothing pushed.
NewRepo(bytes) ==
    [head |-> "main",
     heads |-> {[name |-> "main", toml |-> bytes,
                 lock |-> LockFor(CargoVersion(splitlines(bytes, FALSE),
                                               VersionFields(splitlines(bytes, FALSE)))),
                 msg |-> "init"]},
     remote |-> {}, prs |-> {}]

Init ==
    /\ toml \in PipelineManifests
    /\ trail = <<>>
    /\ call = NoCall
    /\ ret = NoRet
    /\ env \in Environments
    /\ git = NewRepo(toml)
    /\ run = NewRun(1, git)
    /\ lock = LockFor(CargoVersion(splitlines(toml, FALSE),
                                   VersionFields(splitlines(toml, FALSE))))
    /\ extra \in BOOLEAN

\* The tip of branch b; the commit HEAD is at.
Tip(b) == CHOOSE h \in git.heads : h.name = b

\* The process moves on to pc.
Goto(r, pc) == [r EXCEPT !.pc = pc, !.log = Append(@, pc)]

\* The process ends through sys.exit with the given status.
Exit(r, status) == [r EXCEPT !.pc = "exited", !.exit = status, !.log = Append(@, "exited")]

\* main, step 1.  An editor that finds no version ends the process with a message.
Edit ==
    /\ run.pc = "start"
    /\ \E r \in {IF env.mode = "patch" THEN bump_patch_in_cargo_toml(toml)
                 ELSE set_rc_in_cargo_toml(toml, strftime(Clock[run.n]))} :
          /\ toml' = r.out
          /\ run' = IF r.ok THEN Goto(run, "edited") ELSE Exit(run, 1)
    /\ UNCHANGED <<trail, call, ret, env, lock, extra, git>>

\* What the script does with the value rc of os.system("cargo build").
AfterBuild(r, rc) ==
    IF rc = 0 THEN Goto([r EXCEPT !.rc = rc], "built")
    ELSE IF env.mode = "patch" THEN Exit([r EXCEPT !.rc = rc], ExitStatus(rc))
    ELSE Exit([r EXCEPT !.rc = rc], 1)

\* main, step 2.
Build ==
    /\ run.pc = "edited"
    /\ \E o \in BuildOutcomes :
          /\ lock' = IF o.lock
                     THEN LockFor(CargoVersion(splitlines(toml, FALSE),
                                               VersionFields(splitlines(toml, FALSE))))
                     ELSE lock
          /\ extra' = (extra \/ o.extra)
          /\ run' = AfterBuild(run, WaitStatus(o.kind, o.n))
    /\ UNCHANGED <<toml, trail, call, ret, env, git>>

\* git status --porcelain in the working tree: the state of each path of PathOrder.
StatusNow ==
    << IF lock # Tip(git.head).lock THEN " M" ELSE "",
       IF toml # Tip(git.head).toml THEN " M" ELSE "",
       IF extra THEN "??" ELSE "",
       "" >>

\* The number of gates passed, in the order main applies them, from the result g of
\* the two-file gate and the extractions t and l.
GatesPassed(g, t, l) ==
    IF ~g.ok THEN 0
    ELSE IF ~(t.ok /\ l.ok) THEN 1
    ELSE IF ~PairPass(t, l) THEN 2
    ELSE 3

\* main, steps 3 and 4.  The index is that of the commit checked out.
Verify ==
    /\ run.pc = "built"
    /\ \E n \in {GatesPassed(
                   check_only_two_files_modified(GitStatus(StatusNow, 1)),
                   extract_single_line_change("Cargo.toml",
                       ByteLines(SplitNl(Tip(git.head).toml)), ByteLines(SplitNl(toml))),
                   extract_single_line_change("Cargo.lock", Tip(git.head).lock, lock))} :
          run' = IF n = 3 THEN Goto([run EXCEPT !.gates = n], "verified")
                 ELSE Exit([run EXCEPT !.gates = n], 1)
    /\ UNCHANGED <<toml, trail, call, ret, env, lock, extra, git>>

\* The exit codes of a git command that fails: an error, a fatal error.
GitCodes == {1, 128}

\* git: a command that returns code, not 0, has its stderr written to sys.stderr and
\* ends the process through sys.exit(r.returncode).
GitExit(r, cmd, code) ==
    Exit([r EXCEPT !.failed = [cmd |-> cmd, code |-> code], !.stderr = Append(@, cmd)],
         ExitStatus(code))

\* One of the commands cmds fails.
GitFails(cmds) == \E c \in cmds, code \in GitCodes : run' = GitExit(run, c, code)

BranchPrefix == IF env.mode = "patch" THEN "chore/bump-v" ELSE "chore/rc-v"

CommitPrefix == IF env.mode = "patch" THEN "bump: Cargo to v" ELSE "rc: Cargo to v"

\* A git checkout that goes through whatever the working tree holds.
CanCheckout_Always(b) == TRUE

\* git checkout b with both files changed in the working tree: git refuses, with
\* status 1, when the commit of b differs from the one checked out in a changed file.
CanCheckout(b) == Tip(b).toml = Tip(git.head).toml /\ Tip(b).lock = Tip(git.head).lock

\* The version read back, git config, then rev-parse and checkout -b or checkout of
\* the branch.
Checkout(version, branch) ==
    IF version = "" THEN run' = Exit(run, 1) /\ UNCHANGED git
    ELSE \/ GitFails({"config"}) /\ UNCHANGED git
         \/ IF branch \notin {h.name : h \in git.heads}
            THEN /\ git' = [git EXCEPT !.head = branch,
                                       !.heads = @ \cup {[Tip(git.head) EXCEPT !.name = branch]}]
                 /\ run' = Goto([run EXCEPT !.version = version, !.branch = branch],
                                "branch-ready")
            ELSE IF CanCheckout(branch)
            THEN /\ git' = [git EXCEPT !.head = branch]
                 /\ run' = Goto([run EXCEPT !.version = version, !.branch = branch],
                                "branch-ready")
            ELSE /\ run' = GitExit([run EXCEPT !.version = version, !.branch = branch],
                                   "checkout", 1)
                 /\ UNCHANGED git

\* main, step 5 up to the checkout.
Branch ==
    /\ run.pc = "verified"
    /\ \E v \in {IF env.mode = "patch" THEN read_version_from_toml(toml)
                 ELSE read_version_from_toml_full(toml)} :
          Checkout(v, BranchPrefix \o v)
    /\ UNCHANGED <<toml, trail, call, ret, env, lock, extra>>

\* git add of the two files, git status, and git commit when it reports anything.
Commit ==
    /\ run.pc = "branch-ready"
    /\ \/ GitFails({"add", "status"}) /\ UNCHANGED git
       \/ IF GitStatus(StatusNow, 1) # ""
          THEN \/ GitFails({"commit"}) /\ UNCHANGED git
               \/ /\ git' = [git EXCEPT !.heads =
                                 (@ \ {Tip(git.head)})
                                   \cup {[name |-> git.head, toml |-> toml, lock |-> lock,
                                          msg |-> CommitPrefix \o run.version]}]
                  /\ run' = Goto([run EXCEPT !.committed = TRUE], "committed")
          ELSE /\ run' = Goto(run, "committed")
               /\ UNCHANGED git
    /\ UNCHANGED <<toml, trail, call, ret, env, lock, extra>>

\* The process has ended, through sys.exit or at the end of main.
Ended == run.pc \in {"exited", "done"}

\* The process reaches the end of main.
Done(r) == [Goto(r, "done") EXCEPT !.exit = 0]

\* The exit codes of git push: done, or a fatal error (no remote, rejected).
PushCodes == {0, 128}

\* A script that ends when a push fails, as it does for the other git commands.
AfterPush_Fatal(r, codes) ==
    IF \E n \in 1..Len(codes) : codes[n] # 0
    THEN Exit([r EXCEPT !.pushes = Len(codes), !.pushrc = codes], 128)
    ELSE Goto([r EXCEPT !.pushes = Len(codes), !.pushrc = codes], "pushed")

\* What the script does with the exit codes of its push commands: nothing.
AfterPush(r, codes) == Goto([r EXCEPT !.pushes = Len(codes), !.pushrc = codes], "pushed")

\* git push, once (add_rc_version.py) or twice (bump_version.py).  A push that
\* returns 0 has the branch on the remote.
Push ==
    /\ run.pc = "committed"
    /\ IF env.mode = "rc" /\ ~env.flag
       THEN run' = Done(run) /\ UNCHANGED git
       ELSE \E codes \in [1..(IF env.mode = "patch" THEN 2 ELSE 1) -> PushCodes] :
               /\ git' = [git EXCEPT !.remote =
                             IF \E n \in 1..Len(codes) : codes[n] = 0
                             THEN @ \cup {git.head} ELSE @]
               /\ run' = AfterPush(run, codes)
    /\ UNCHANGED <<toml, trail, call, ret, env, lock, extra>>

\* token and repo as the script finds them in the environment.
HasToken ==
    IF env.mode = "patch" THEN env.token \in {"GITHUB_TOKEN", "GH_TOKEN"}
    ELSE env.token = "GITHUB_TOKEN"

\* main, step 6 up to the request: the POST is on its way.
RequestPr ==
    /\ run.pc = "pushed"
    /\ run' = IF HasToken /\ env.repository
              THEN Goto([run EXCEPT !.request = [title |-> "v" \o run.version,
                                                  head |-> run.branch]],
                        "pr-requested")
              ELSE Exit(run, 1)
    /\ UNCHANGED <<toml, trail, call, ret, env, lock, extra, git>>

\* The answers of the API: created, already exists or not valid, not found, and an
\* error of the server with a code of its own (RFC 9110 has a client treat every 5xx
\* code it does not know as 500; urllib raises HTTPError for it with that code).
ApiAnswers == {201, 422, 404, 512}

\* A pull request is created only for a head that is on the remote and has none yet.
CanAnswer(code) == code = 201 => (run.branch \in git.remote /\ run.branch \notin git.prs)

\* github_api: 2xx returns the body, 422 returns None, any other code has the body of
\* the answer written to sys.stderr and ends the process through sys.exit(e.code).
Answer ==
    /\ run.pc = "pr-requested"
    /\ \E code \in ApiAnswers :
          /\ CanAnswer(code)
          /\ git' = [git EXCEPT !.prs = IF code = 201 THEN @ \cup {run.branch} ELSE @]
          /\ run' = IF code \in {201, 422} THEN Done([run EXCEPT !.answer = code])
                    ELSE Exit([run EXCEPT !.answer = code,
                                          !.stderr = Append(@, "body")],
                              ExitStatus(code))
    /\ UNCHANGED <<toml, trail, call, ret, env, lock, extra>>

\* The script is run again after a run that ended, in a clean checkout of one of the
\* branches of the repository.
Rerun ==
    /\ Ended
    /\ run.n < MaxRuns
    /\ \E b \in {h.name : h \in git.heads} :
          /\ git' = [git EXCEPT !.head = b]
          /\ toml' = Tip(b).toml
          /\ lock' = Tip(b).lock
          /\ extra' = FALSE
          /\ run' = NewRun(run.n + 1, [git EXCEPT !.head = b])
    /\ UNCHANGED <<trail, call, ret, env>>

Next == Edit \/ Build \/ Verify \/ Branch \/ Commit \/ Push \/ RequestPr \/ Answer \/ Rerun

Spec == Init /\ [][Next]_vars

(***************************************************************************)
(* What the pipeline properties speak of.                                  *)
(***************************************************************************)
\* The steps of the Release Publisher.
PublishSteps == {"branch-ready", "committed", "pushed", "pr-requested"}

\* The commit checked out when the run began.
PreTip == CHOOSE h \in run.pre.heads : h.name = run.pre.head

\* The version of the package in the manifest as it is now.
NewVersion == CargoVersion(splitlines(toml, FALSE), VersionFields(splitlines(toml, FALSE)))

\* No step of the publisher is in the log without the edit, the build and the
\* verification before it; until the verification the repository is as it was; and
\* a verified working tree differs from the commit in exactly the two files, each by
\* one removed and one added line.
NoPublishUnlessVerified ==
    /\ \A i \in 1..Len(run.log) :
          run.log[i] \in PublishSteps
             => /\ i > 4
                /\ run.log[2] = "edited" /\ run.log[3] = "built" /\ run.log[4] = "verified"
                /\ run.rc = 0 /\ run.gates = 3
    /\ (Len(run.log) < 4 \/ run.log[4] # "verified") => git = run.pre
    /\ (Len(run.log) >= 4 /\ run.log[4] = "verified")
          => /\ ~extra /\ toml # PreTip.toml /\ lock # PreTip.lock
             /\ Added(ByteLines(SplitNl(PreTip.toml)), ByteLines(SplitNl(toml))) = 1
             /\ Removed(ByteLines(SplitNl(PreTip.toml)), ByteLines(SplitNl(toml))) = 1
             /\ Added(PreTip.lock, lock) = 1 /\ Removed(PreTip.lock, lock) = 1

\* A run with a third changed path ends with a status other than zero and no commit.
ThirdFileFails ==
    (Ended /\ extra) => (run.exit # 0 /\ ~run.committed /\ git.heads = run.pre.heads)

\* C7: nothing is published unless the edit, the build and the three gates of the
\* verifier passed earlier in the run, and a run in which a third file changed ends
\* with a non-zero exit and no commit.
C7_AllOrNothing == NoPublishUnlessVerified /\ ThirdFileFails

\* C8: after a build that ended with a non-zero exit code the verifier does not run
\* and the status of the pipeline process, as its caller sees it, is not zero.
C8_BuildFailureIsFatal ==
    (Ended /\ run.rc > 0)
        => /\ run.gates = 0 /\ run.log = <<"start", "edited", "exited">>
           /\ run.exit \in 1..255

\* The states of a run the specification names.
IsRunState(x) == x \in {"start", "branch-ready", "committed", "pushed", "pr-requested", "done"}

\* The run began from a manifest with a plain package version and no branch for the
\* new version, the build ended with 0 and brought exactly the lockfile's version line
\* up to the manifest's, the token and the repository are set (and the flag, for the
\* release-candidate script), no git command failed and the API did not answer with
\* an error.
SuccessCase ==
    /\ PlainFields(splitlines(PreTip.toml, FALSE)) # {}
    /\ (BranchPrefix \o NewVersion) \notin {h.name : h \in run.pre.heads}
    /\ run.rc = 0 /\ ~extra /\ lock = LockFor(NewVersion)
    /\ HasToken /\ env.repository /\ (env.mode = "rc" => env.flag)
    /\ run.failed.cmd = ""
    /\ run.answer \in {0, 201}

\* C9: in the success case the run passes through start, branch-ready, committed,
\* pushed, pr-requested and done in that order and exits with 0; the branch is
\* chore/bump-v<new> (chore/rc-v<new>), the commit message embeds <new> and the title
\* of the pull request is v<new>, <new> being the version of the edited manifest.
C9_EndToEndSuccess ==
    (Ended /\ SuccessCase)
        => /\ run.pc = "done" /\ run.exit = 0
           /\ SelectSeq(run.log, IsRunState)
                = <<"start", "branch-ready", "committed", "pushed", "pr-requested", "done">>
           /\ run.version = NewVersion
           /\ run.branch = BranchPrefix \o NewVersion
           /\ git.head = run.branch /\ Tip(run.branch).msg = CommitPrefix \o NewVersion
           /\ run.request = [title |-> "v" \o NewVersion, head |-> run.branch]

\* The run got to the publisher in a repository where the branch of its version held
\* the same bump already, was on the remote and had its pull request.
RerunCase ==
    /\ run.branch # ""
    /\ \E h \in run.pre.heads : h.name = run.branch /\ h.toml = toml /\ h.lock = lock
    /\ run.branch \in run.pre.remote /\ run.branch \in run.pre.prs
    /\ HasToken /\ env.repository
    /\ run.answer \in {0, 422}

\* C10: a run on such a state ends with exit code 0, on the existing branch, which
\* is left as it was, without a new commit.
C10_RerunExitsZero ==
    (Ended /\ RerunCase)
        => /\ run.pc = "done" /\ run.exit = 0
           /\ git.head = run.branch
           /\ ~run.committed /\ git.heads = run.pre.heads

(***************************************************************************)
(* The answer of the API.                                                  *)
(***************************************************************************)
IsRequest(x) == x = "pr-requested"

\* C11: a run whose request was answered made exactly one request; on 201 and on 422
\* it reaches the end of main and exits with 0; on any other answer it ends with the
\* body of the answer on the error stream and an exit status other than zero.
C11_ApiAnswerHandled ==
    (Ended /\ run.answer # 0)
        => /\ Len(SelectSeq(run.log, IsRequest)) = 1
           /\ run.answer \in {201, 422} => (run.pc = "done" /\ run.exit = 0)
           /\ run.answer \notin {201, 422}
                 => /\ run.pc = "exited" /\ run.stderr = <<"body">>
                    /\ run.exit \in 1..255

(***************************************************************************)
(* Credentials, the flag and the network.                                  *)
(***************************************************************************)
\* The run is to publish: bump_version.py always, add_rc_version.py with the flag.
Publishing == env.mode = "patch" \/ env.flag

\* The run passed through pc.
Reached(pc) == \E i \in 1..Len(run.log) : run.log[i] = pc

\* C12: a publishing run that got past the commit with the token or the repository
\* identifier absent ends with a failure, and no push and no request to the API was
\* issued in it.
C12_NoNetworkWithoutCredentials ==
    (Ended /\ Publishing /\ Reached("committed") /\ ~(HasToken /\ env.repository))
        => /\ run.pc = "exited" /\ run.exit # 0
           /\ run.pushes = 0
           /\ run.request.head = "" /\ run.answer = 0

\* C13: a run of either script started without the pull-request flag that got past the
\* commit ends there with exit status 0, whatever the token and the repository
\* identifier are, without a push and without a request to the API.
C13_LocalOnlyWithoutFlag ==
    (Ended /\ ~env.flag /\ Reached("committed"))
        => /\ run.pc = "done" /\ run.exit = 0
           /\ run.log[Len(run.log) - 1] = "committed"
           /\ run.pushes = 0 /\ git.remote = run.pre.remote
           /\ run.request.head = "" /\ run.answer = 0

(***************************************************************************)
(* The editor and the reader.                                              *)
(***************************************************************************)
\* The text between the first two double quotes of c.
Quoted(c) == SubSeq(c, QuoteFrom(c, 1, 1) + 1, QuoteFrom(c, 1, 2) - 1)

\* The version a successful edit e wrote, from the line b it found: X.Y.(Z+1) for a
\* patch edit, the string the editor returned for a release-candidate edit.
Written(e, b) ==
    IF e.mode = "rc" THEN e.ret
    ELSE re_match(VERSION_RE_PATCH, b).g[2] \o "." \o re_match(VERSION_RE_PATCH, b).g[3]
           \o "." \o str(PatchOf(b) + 1)

\* The reader's answer on the lines a the edit e made of the lines b: the version
\* the edit wrote, which is the value of the one line the edit changed.
ReadsBack(e, a, b) ==
    /\ e.read # ""
    /\ \E i \in DiffIdx(a, b) :
          /\ DiffIdx(a, b) = {i}
          /\ e.read = Quoted(a[i])
          /\ e.read = Written(e, b[i])

\* C14: after every successful edit the reader of the same script, applied to the
\* edited manifest, returns the version the editor wrote, read from the line the
\* editor changed.
C14_ReaderAgrees ==
    (trail # <<>> /\ LastEdit.ok)
        => ReadsBack(LastEdit, splitlines(LastEdit.after, FALSE),
                     splitlines(LastEdit.before, FALSE))

\* Between the byte lines b before and a after an edit that changed the lines d, every
\* line has the terminator it had; a changed line that had none is left out.
TerminatorsKept(a, b, d) ==
    /\ Len(a) = Len(b)
    /\ \A j \in 1..Len(b) :
          \/ j \in d /\ Terminator(b[j]) = ""
          \/ Terminator(a[j]) = Terminator(b[j])

\* C15: after a successful edit the rewritten version line ends as it did, in one LF
\* or in one CRLF, and every other line has the terminator it had.
C15_TerminatorsKept ==
    (trail # <<>> /\ LastEdit.ok)
        => TerminatorsKept(SplitNl(LastEdit.after), SplitNl(LastEdit.before),
                           DiffIdx(splitlines(LastEdit.after, FALSE),
                                   splitlines(LastEdit.before, FALSE)))

(***************************************************************************)
(* The editor fails.                                                       *)
(***************************************************************************)
\* The manifest the run began from has no package header, or no line inside its
\* package section that the editor's pattern matches.
NoVersionInPackage ==
    IF env.mode = "patch" THEN PlainFields(splitlines(PreTip.toml, FALSE)) = {}
    ELSE VersionFields(splitlines(PreTip.toml, FALSE)) = {}

\* C16: a run on a manifest without a package header, or without a line inside the
\* package section that matches the version pattern, ends in the editor with a
\* failure: the manifest is as it was, the build did not run and nothing after it
\* did, the lockfile and the repository are as they were.
C16_EditorFailureUntouched ==
    (run.pc # "start" /\ NoVersionInPackage)
        => /\ run.pc = "exited" /\ run.exit \in 1..255
           /\ run.log = <<"start", "exited">>
           /\ toml = PreTip.toml /\ lock = PreTip.lock
           /\ run.rc = -1 /\ run.gates = 0
           /\ git = run.pre

\* The editor failed on a manifest with CRLF line ends whose only version
\* assignment is in another section.
C16_Witness ==
    /\ run.pc = "exited" /\ NoVersionInPackage
    /\ \E j \in 1..Len(splitlines(toml, FALSE)) : IsPlainField(splitlines(toml, FALSE)[j])
    /\ \E j \in 1..Len(SplitNl(toml)) : Terminator(SplitNl(toml)[j]) = "\r\n"

(***************************************************************************)
(* The git commands of the publisher.                                      *)
(***************************************************************************)
\* The exit status of a run that got past the push, from what the environment holds
\* and what the API answered.
ExitAfterPush ==
    IF ~(HasToken /\ env.repository) THEN 1
    ELSE IF run.answer \in {201, 422} THEN 0
    ELSE run.answer % 256

\* The step a git command belongs to.
StepBefore(cmd) == IF cmd \in {"config", "checkout"} THEN "verified" ELSE "branch-ready"

\* C17: whatever the push commands returned, the run goes on to look for the token
\* and the repository and, with both set, to the request, and its exit status is a
\* function of these and of the answer alone; a config, checkout, add, status or
\* commit command that fails ends the run on the spot with its own exit code.
C17_PushNeverDecides ==
    /\ run.pushrc # <<>>
          => /\ Reached("pushed")
             /\ Ended => /\ run.exit = ExitAfterPush
                         /\ (HasToken /\ env.repository) => Reached("pr-requested")
    /\ run.failed.cmd # ""
          => /\ run.pc = "exited" /\ run.failed.code # 0
             /\ run.exit = run.failed.code
             /\ run.log[Len(run.log) - 1] = StepBefore(run.failed.cmd)
             /\ run.pushrc = <<>> /\ run.request.head = ""

\* Both pushes of bump_version.py failed and the run went on to the request and
\* ended with exit status 0.
C17_Witness ==
    /\ run.pushrc = <<128, 128>>
    /\ Reached("pr-requested") /\ run.pc = "done" /\ run.exit = 0

====
